---------------------------- MODULE Spec2Model ----------------------------
(***************************************************************************)
(* A model of the water-network simulation engine: the orchestrator        *)
(* WaterManagementSystem (core/envs/water_management_system.py) and the    *)
(* nodes it steps: Reservoir, PowerPlant, IrrigationDistrict (core/models) *)
(* and the flow edges (core/models/flow.py, not part of the sources at     *)
(* hand: modelled from the specification's description of them).           *)
(*                                                                         *)
(* Quantities are integers.  Times are seconds, flows are m3/s, volumes    *)
(* m3.  The configurations below are chosen so that every division the     *)
(* code performs in floating point is exact on the values the model        *)
(* reaches (see DivisionsExact).  A plant's efficiency is given in tenths  *)
(* and its production in units of 1e-9 MWh.                                *)
(***************************************************************************)
EXTENDS Integers, Sequences, FiniteSets, TLC

VARIABLES
    cfg,            \* which configuration the system was constructed from
    water_systems,  \* WaterManagementSystem.water_systems: the node objects
    current_date,   \* WaterManagementSystem.current_date (seconds)
    timestep,       \* WaterManagementSystem.timestep
    rewards,        \* WaterManagementSystem.rewards
    observation,    \* WaterManagementSystem.observation
    ret,            \* what the last call (constructor, step, reset) returned
    log             \* the locals of the last step call, per node stepped

vars == <<cfg, water_systems, current_date, timestep, rewards, observation, ret, log>>

-----------------------------------------------------------------------------
(* Bounds of the model *)

\* Orchestrator steps taken in one run of the model (resets do not count).
MaxSteps == 3

\* Orchestrator steps taken in the run over the seasons.
MaxMonths == 13

\* Slots an inflow ledger may be asked for in the ledger specification.
MaxSlots == 3

\* The largest value a ledger slot accumulates in the ledger specification.
MaxVolume == 8

\* float("inf"), the default of max_capacity.
Inf == 2000000000

\* Python's None.
None == "None"

\* None as the value of split_release, a field that otherwise holds the list
\* of shares: the list without shares.
NoSplit == <<>>

-----------------------------------------------------------------------------
(* Sequence helpers *)

RECURSIVE SumSeq(_)
SumSeq(s) == IF s = <<>> THEN 0 ELSE Head(s) + SumSeq(Tail(s))

Last(s) == s[Len(s)]

Min2(a, b) == IF a <= b THEN a ELSE b

Max2(a, b) == IF a >= b THEN a ELSE b

\* Mutant of Mean: the releases of the sub-steps are summed, not averaged.
Mean_Sum(s) == SumSeq(s)

\* np.mean(sub_releases): exact on every value the model reaches.
Mean(s) == SumSeq(s) \div Len(s)

-----------------------------------------------------------------------------
(* Configurations: what the environment builder passes to the constructors *)

NoEvaporation == <<0, 0, 0, 0, 0, 0, 0, 0, 0, 0, 0, 0>>

\* A river basin: inflow -> reservoir -> power plant -> irrigation district.
BasinConfig ==
    [ start_date |-> 0,
      timestep_size |-> 7200,
      rewards |-> << [key |-> "recreation", value |-> 0],
                     [key |-> "energy_revenue", value |-> 5],
                     [key |-> "water_supply", value |-> 0] >>,
      water_systems |-> <<
        [ kind |-> "inflow", name |-> "inflow_main", destination |-> 2,
          inflow_vals |-> {0, 4} ],
        [ kind |-> "reservoir", name |-> "dam", action_shape |-> 2,
          objective_function |-> "minimum_water_level", objective_name |-> "recreation",
          integration_timestep_size |-> 5400,
          evap_rates |-> <<0, 100, 0, 0, 0, 0, 0, 0, 0, 0, 0, 0>>,
          storage_to_minmax_rel |-> << <<0, 14400>>, <<0, 0>>, <<0, 8>> >>,
          storage_to_level_rel |-> << <<0, 14400>>, <<0, 4>> >>,
          storage_to_surface_rel |-> << <<0, 1>>, <<0, 14400>> >>,
          max_capacity |-> 21600, stored_water |-> 7200,
          action_vals |-> { <<0, 0>>, <<2, 2>> } ],
        [ kind |-> "flow", name |-> "dam_outflow", source |-> 2, destination |-> 4 ],
        [ kind |-> "power_plant", name |-> "plant",
          objective_function |-> "identity", objective_name |-> "energy_revenue",
          efficiency |-> 8, min_turbine_flow |-> 1, max_turbine_flow |-> 3,
          head_start_level |-> 1, max_capacity |-> 50000000, reservoir |-> 2,
          water_usage |-> 0 ],
        [ kind |-> "flow", name |-> "plant_outflow", source |-> 4, destination |-> 6 ],
        [ kind |-> "irrigation", name |-> "farms", all_demand |-> <<2, 4, 2, 4, 2>>,
          objective_function |-> "water_deficit_minimised",
          objective_name |-> "water_supply" ] >> ]

\* The end-to-end scenario: one reservoir, level 0..100 m over 0..1000 m3,
\* release bounds constant [0, 50], inflow 30 m3/s, 1 h timestep, 15 min sub-step.
ScenarioConfig ==
    [ start_date |-> 0,
      timestep_size |-> 3600,
      rewards |-> << [key |-> "recreation", value |-> 0] >>,
      water_systems |-> <<
        [ kind |-> "inflow", name |-> "inflow", destination |-> 2,
          inflow_vals |-> {30} ],
        [ kind |-> "reservoir", name |-> "reservoir", action_shape |-> 1,
          objective_function |-> "no_objective", objective_name |-> "",
          integration_timestep_size |-> 900,
          evap_rates |-> NoEvaporation,
          storage_to_minmax_rel |-> << <<0, 1000>>, <<0, 0>>, <<50, 50>> >>,
          storage_to_level_rel |-> << <<0, 1000>>, <<0, 100>> >>,
          storage_to_surface_rel |-> << <<0, 1000>>, <<0, 100>> >>,
          max_capacity |-> Inf, stored_water |-> 500,
          action_vals |-> { <<20>>, <<60>> } ] >> ]

\* Two irrigation districts sharing an objective; the first is fed by two edges.
DistrictsConfig ==
    [ start_date |-> 7200,
      timestep_size |-> 7200,
      rewards |-> << [key |-> "water_supply", value |-> 1],
                     [key |-> "unused", value |-> 2] >>,
      water_systems |-> <<
        [ kind |-> "inflow", name |-> "inflow_a", destination |-> 4,
          inflow_vals |-> {5, 60, 90} ],
        [ kind |-> "inflow", name |-> "inflow_b", destination |-> 4,
          inflow_vals |-> {0, 3} ],
        [ kind |-> "inflow", name |-> "inflow_c", destination |-> 5,
          inflow_vals |-> {7} ],
        [ kind |-> "irrigation", name |-> "upper", all_demand |-> <<100, 80>>,
          objective_function |-> "water_deficit_minimised",
          objective_name |-> "water_supply" ],
        [ kind |-> "irrigation", name |-> "lower", all_demand |-> <<10, 20, 30, 40, 50>>,
          objective_function |-> "water_deficit_minimised",
          objective_name |-> "water_supply" ] >> ]

\* One reservoir with a scalar action, a sub-step that does not divide the
\* timestep, storage-dependent release bounds and a finite capacity.
SingleConfig ==
    [ start_date |-> 0,
      timestep_size |-> 3600,
      rewards |-> << [key |-> "recreation", value |-> 3] >>,
      water_systems |-> <<
        [ kind |-> "inflow", name |-> "inflow", destination |-> 2,
          inflow_vals |-> {0, 4} ],
        [ kind |-> "reservoir", name |-> "lake", action_shape |-> 1,
          objective_function |-> "minimum_water_level", objective_name |-> "recreation",
          integration_timestep_size |-> 2700,
          evap_rates |-> <<0, 0, 100, 0, 0, 0, 0, 0, 0, 0, 0, 0>>,
          storage_to_minmax_rel |-> << <<0, 7200>>, <<0, 0>>, <<0, 8>> >>,
          storage_to_level_rel |-> << <<0, 7200>>, <<0, 4>> >>,
          storage_to_surface_rel |-> << <<0, 1>>, <<0, 7200>> >>,
          max_capacity |-> 10800, stored_water |-> 3600,
          action_vals |-> { <<2>>, <<8>> } ] >> ]

\* Two reservoirs in cascade: the upper one can be drawn below zero, which
\* ends the step before the edge to the lower one and the lower one are
\* stepped, and refilled above zero by a later inflow.  One of its actions
\* is negative.  The lower one's sub-step is longer than the timestep.
CascadeConfig ==
    [ start_date |-> 0,
      timestep_size |-> 3600,
      rewards |-> << [key |-> "recreation", value |-> 0] >>,
      water_systems |-> <<
        [ kind |-> "inflow", name |-> "inflow_top", destination |-> 2,
          inflow_vals |-> {0, 8} ],
        [ kind |-> "reservoir", name |-> "upper_dam", action_shape |-> 1,
          objective_function |-> "no_objective", objective_name |-> "",
          integration_timestep_size |-> 1800,
          evap_rates |-> NoEvaporation,
          storage_to_minmax_rel |-> << <<0, 7200>>, <<0, 0>>, <<8, 8>> >>,
          storage_to_level_rel |-> << <<0, 7200>>, <<0, 4>> >>,
          storage_to_surface_rel |-> << <<0, 7200>>, <<0, 100>> >>,
          max_capacity |-> Inf, stored_water |-> 7200,
          action_vals |-> { <<-1>>, <<8>> } ],
        [ kind |-> "flow", name |-> "cascade", source |-> 2, destination |-> 4 ],
        [ kind |-> "reservoir", name |-> "lower_dam", action_shape |-> 1,
          objective_function |-> "minimum_water_level", objective_name |-> "recreation",
          integration_timestep_size |-> 5400,
          evap_rates |-> NoEvaporation,
          storage_to_minmax_rel |-> << <<0, 7200>>, <<0, 0>>, <<2, 2>> >>,
          storage_to_level_rel |-> << <<0, 7200>>, <<0, 4>> >>,
          storage_to_surface_rel |-> << <<0, 7200>>, <<0, 100>> >>,
          max_capacity |-> Inf, stored_water |-> 3600,
          action_vals |-> { <<1>> } ] >> ]

\* A node list in the wrong order: the reservoir is stepped before the edge
\* that feeds it, so its inflow slot has not been written when it reads it.
MisorderedConfig ==
    [ start_date |-> 0,
      timestep_size |-> 3600,
      rewards |-> << [key |-> "recreation", value |-> 0] >>,
      water_systems |-> <<
        [ kind |-> "reservoir", name |-> "early_dam", action_shape |-> 1,
          objective_function |-> "no_objective", objective_name |-> "",
          integration_timestep_size |-> 1800,
          evap_rates |-> NoEvaporation,
          storage_to_minmax_rel |-> << <<0, 1000>>, <<0, 0>>, <<50, 50>> >>,
          storage_to_level_rel |-> << <<0, 1000>>, <<0, 100>> >>,
          storage_to_surface_rel |-> << <<0, 1000>>, <<0, 100>> >>,
          max_capacity |-> Inf, stored_water |-> 500,
          action_vals |-> { <<20>> } ],
        [ kind |-> "inflow", name |-> "late_inflow", destination |-> 1,
          inflow_vals |-> {30} ] >> ]

\* A power plant listed before the reservoir it reads its head from, so that
\* on the first step of an episode the reservoir has recorded no level yet.
\* The plant consumes its whole turbine flow.
HeadwaterConfig ==
    [ start_date |-> 0,
      timestep_size |-> 3600,
      rewards |-> << [key |-> "energy_revenue", value |-> 0] >>,
      water_systems |-> <<
        [ kind |-> "inflow", name |-> "headwater", destination |-> 2,
          inflow_vals |-> {0, 5} ],
        [ kind |-> "power_plant", name |-> "run_of_river",
          objective_function |-> "identity", objective_name |-> "energy_revenue",
          efficiency |-> 8, min_turbine_flow |-> 1, max_turbine_flow |-> 3,
          head_start_level |-> 1, max_capacity |-> 50000000, reservoir |-> 4,
          water_usage |-> 1 ],
        [ kind |-> "flow", name |-> "tailrace", source |-> 2, destination |-> 4 ],
        [ kind |-> "reservoir", name |-> "tailwater", action_shape |-> 1,
          objective_function |-> "no_objective", objective_name |-> "",
          integration_timestep_size |-> 3600,
          evap_rates |-> NoEvaporation,
          storage_to_minmax_rel |-> << <<0, 7200>>, <<0, 0>>, <<0, 0>> >>,
          storage_to_level_rel |-> << <<0, 7200>>, <<0, 4>> >>,
          storage_to_surface_rel |-> << <<0, 7200>>, <<0, 100>> >>,
          max_capacity |-> Inf, stored_water |-> 3600,
          action_vals |-> { <<0>> } ] >> ]

\* A node list in the wrong order with a passive facility first: the district
\* is stepped before the edge that feeds it.
MisorderedFarmsConfig ==
    [ start_date |-> 0,
      timestep_size |-> 3600,
      rewards |-> << [key |-> "water_supply", value |-> 0] >>,
      water_systems |-> <<
        [ kind |-> "irrigation", name |-> "early_farms", all_demand |-> <<2, 4>>,
          objective_function |-> "water_deficit_minimised",
          objective_name |-> "water_supply" ],
        [ kind |-> "inflow", name |-> "late_inflow", destination |-> 1,
          inflow_vals |-> {3} ] >> ]

\* One reservoir run for more than a year of monthly steps: every month has
\* its own evaporation rate, the surface is 100 m2 above an empty reservoir
\* and 0 at or below it.
SeasonsConfig ==
    [ start_date |-> 0,
      timestep_size |-> 3600,
      rewards |-> << [key |-> "recreation", value |-> 0] >>,
      water_systems |-> <<
        [ kind |-> "inflow", name |-> "inflow", destination |-> 2,
          inflow_vals |-> {0, 1} ],
        [ kind |-> "reservoir", name |-> "pond", action_shape |-> 1,
          objective_function |-> "no_objective", objective_name |-> "",
          integration_timestep_size |-> 1800,
          evap_rates |-> <<100, 200, 300, 400, 500, 600, 700, 800, 900, 1000, 1100, 1200>>,
          storage_to_minmax_rel |-> << <<0, 1>>, <<0, 0>>, <<1, 1>> >>,
          storage_to_level_rel |-> << <<0, 1>>, <<0, 10>> >>,
          storage_to_surface_rel |-> << <<0, 1>>, <<0, 100>> >>,
          max_capacity |-> Inf, stored_water |-> 20000,
          action_vals |-> { <<1>> } ] >> ]

Configs == <<BasinConfig, ScenarioConfig, DistrictsConfig, SingleConfig,
             CascadeConfig, MisorderedConfig, HeadwaterConfig,
             MisorderedFarmsConfig, SeasonsConfig>>

\* The configurations run for MaxSteps steps; the last one, SeasonsConfig, is
\* run for MaxMonths steps.
ShortRuns == 1..(Len(Configs) - 1)

LongRun == Len(Configs)

Config == Configs[cfg]

NodeIds == 1..Len(Config.water_systems)

NodeCfg(i) == Config.water_systems[i]

IsControlled(i) == NodeCfg(i).kind = "reservoir"

IsFacility(i) == NodeCfg(i).kind \in {"power_plant", "irrigation"}

IsFlow(i) == NodeCfg(i).kind \in {"flow", "inflow"}


-----------------------------------------------------------------------------
(* Interpolation: np.interp / compiled_interp over a sorted breakpoint curve *)

\* The segment of xp that holds x, for xp[1] < x < xp[Len(xp)].
Segment(x, xp) == CHOOSE i \in 1..(Len(xp) - 1) : xp[i] <= x /\ x < xp[i + 1]

Interp(x, xp, fp) ==
    IF x <= xp[1] THEN fp[1]
    ELSE IF x >= xp[Len(xp)] THEN fp[Len(fp)]
    ELSE LET i == Segment(x, xp)
         IN  fp[i] + (((x - xp[i]) * (fp[i + 1] - fp[i])) \div (xp[i + 1] - xp[i]))

\* Whether the interpolated value is an integer (the model's division is exact).
InterpExact(x, xp, fp) ==
    \/ x <= xp[1]
    \/ x >= xp[Len(xp)]
    \/ LET i == Segment(x, xp)
       IN  ((x - xp[i]) * (fp[i + 1] - fp[i])) % (xp[i + 1] - xp[i]) = 0

-----------------------------------------------------------------------------
(* Objective functions (core/models/objective.py): closures bound at        *)
(* construction, named here by a tag.                                       *)

Objective(fn, args) ==
    CASE fn = "no_objective" -> 0
      [] fn = "identity" -> args[1]
      [] fn = "minimum_water_level" -> IF args[1] >= 2 THEN 1 ELSE 0
      [] fn = "water_deficit_minimised" -> 0 - Max2(0, args[1] - args[2])

-----------------------------------------------------------------------------
(* Facility and ControlledFacility: the inflow and outflow ledgers *)

\* A call that may raise: fault is TRUE when it raised, value is what it
\* returned or, for a mutator, the object afterwards.
Returned(v) == [fault |-> FALSE, value |-> v]

Raised(v) == [fault |-> TRUE, value |-> v]

HasInflow(self, t) == t + 1 <= Len(self.all_inflow)

get_inflow(self, t) == self.all_inflow[t + 1]

HasOutflow(self, t) == t + 1 <= Len(self.all_outflow)

get_outflow(self, t) == self.all_outflow[t + 1]

\* Mutant of set_inflow: a second write to a slot overwrites the first.
set_inflow_Overwrites(self, t, inflow) ==
    IF Len(self.all_inflow) = t
    THEN Returned([self EXCEPT !.all_inflow = Append(@, inflow)])
    ELSE IF Len(self.all_inflow) > t
    THEN Returned([self EXCEPT !.all_inflow[t + 1] = inflow])
    ELSE Raised(self)

\* Mutant of set_inflow: a write ahead of the ledger's end pads the ledger
\* with zeros up to the slot instead of raising.
RECURSIVE Padded(_, _)
Padded(s, n) == IF Len(s) >= n THEN s ELSE Padded(Append(s, 0), n)

set_inflow_Pads(self, t, inflow) ==
    IF Len(self.all_inflow) > t
    THEN Returned([self EXCEPT !.all_inflow[t + 1] = @ + inflow])
    ELSE Returned([self EXCEPT !.all_inflow = Append(Padded(@, t), inflow)])

set_inflow(self, t, inflow) ==
    IF Len(self.all_inflow) = t
    THEN Returned([self EXCEPT !.all_inflow = Append(@, inflow)])
    ELSE IF Len(self.all_inflow) > t
    THEN Returned([self EXCEPT !.all_inflow[t + 1] = @ + inflow])
    ELSE Raised(self)

\* get_inflow(timestep) as a call: self.all_inflow[timestep] raises IndexError
\* for a slot past the end of the list.
get_inflow_call(self, t) ==
    IF HasInflow(self, t) THEN Returned(get_inflow(self, t)) ELSE Raised(None)

\* Facility.__init__
Facility_init(name, objective_function, objective_name) ==
    [ name |-> name, all_inflow |-> <<>>, all_outflow |-> <<>>,
      objective_function |-> objective_function, objective_name |-> objective_name,
      current_date |-> None, timestep |-> 0, split_release |-> NoSplit ]

\* ControlledFacility.__init__; should_split_release = prod(action_space.shape) > 1
ControlledFacility_init(name, action_shape, objective_function, objective_name, max_capacity) ==
    [ name |-> name, all_inflow |-> <<>>, all_outflow |-> <<>>,
      objective_function |-> objective_function, objective_name |-> objective_name,
      max_capacity |-> max_capacity,
      current_date |-> None, timestep |-> 0,
      should_split_release |-> (action_shape > 1), split_release |-> NoSplit ]

\* Facility.reset and ControlledFacility.reset
Facility_reset(self) ==
    [self EXCEPT !.timestep = 0, !.all_inflow = <<>>, !.all_outflow = <<>>]

-----------------------------------------------------------------------------
(* Reservoir *)

\* Reservoir.__init__: the base constructor is called with four positional
\* arguments (name, observation_space, action_space, max_capacity), so the
\* capacity lands in the base's fourth parameter, objective_function, and the
\* base's objective_name and max_capacity keep their defaults, "" and inf.
\* objective_function and objective_name are then assigned from the arguments.
Reservoir_init(c) ==
    LET base == ControlledFacility_init(c.name, c.action_shape, c.max_capacity, "", Inf)
    IN  [ kind |-> "reservoir", stored_water |-> c.stored_water,
          storage_vector |-> <<c.stored_water>>,
          level_vector |-> <<>>, release_vector |-> <<>> ]
        @@ [base EXCEPT !.objective_function = c.objective_function,
                        !.objective_name = c.objective_name]

storage_to_level(c, s) ==
    Interp(s, c.storage_to_level_rel[1], c.storage_to_level_rel[2])

storage_to_surface(c, s) ==
    Interp(s, c.storage_to_surface_rel[1], c.storage_to_surface_rel[2])

storage_to_minmax(c, s) ==
    << Interp(s, c.storage_to_minmax_rel[1], c.storage_to_minmax_rel[2]),
       Interp(s, c.storage_to_minmax_rel[1], c.storage_to_minmax_rel[3]) >>

\* Mutant of determine_month: the table is cycled through one entry early.
determine_month_Eleven(self) == self.timestep % 11

determine_month(self) == self.timestep % 12

\* surface * (evap_rates[month] / (100 * timestep_seconds) * integration_time_seconds)
Evaporation(surface, evap_rate, timestep_seconds, integration_time_seconds) ==
    (((surface * evap_rate) \div 100) * integration_time_seconds) \div timestep_seconds

\* Mutant of ClampRelease: the request is capped but not raised to the minimum.
ClampRelease_NoFloor(total_action, min_possible_release, max_possible_release) ==
    Min2(max_possible_release, total_action)

\* release_per_second = min(max_possible_release, max(min_possible_release, total_action))
ClampRelease(total_action, min_possible_release, max_possible_release) ==
    Min2(max_possible_release, Max2(min_possible_release, total_action))

\* One pass of the while loop's body at storage s: the sub-step's locals.
SubStep(integration_time_seconds, s, surface, evap_rate, timestep_seconds, minmax, total_action) ==
    [ seconds |-> integration_time_seconds, storage |-> s, surface |-> surface,
      evaporation |-> Evaporation(surface, evap_rate, timestep_seconds,
                                  integration_time_seconds),
      min_release |-> minmax[1], max_release |-> minmax[2],
      release |-> ClampRelease(total_action, minmax[1], minmax[2]) ]

\* Mutant of Balance: the release rate is subtracted as if it were a volume.
Balance_ReleaseAsVolume(s, inflow, sub) ==
    s + inflow * sub.seconds - sub.evaporation - sub.release

\* current_storage += total_addition - evaporation - release_per_second * integration_time_seconds
Balance(s, inflow, sub) ==
    s + inflow * sub.seconds - sub.evaporation - sub.release * sub.seconds

\* The while loop of Reservoir.determine_outflow, from date d and storage s,
\* with the sub-steps taken so far in subs.  It raises when the inflow of the
\* current timestep has not been written (get_inflow), after the clock moved.
RECURSIVE IntegrationLoop(_, _, _, _, _, _, _)
LoopBody(self, c, total_action, final_date, next_date, s, subs, sub) ==
    IF ~HasInflow(self, self.timestep)
    THEN Raised([current_date |-> next_date, current_storage |-> s,
                 subs |-> Append(subs, sub)])
    ELSE IntegrationLoop(self, c, total_action, final_date, next_date,
                         Balance(s, get_inflow(self, self.timestep), sub),
                         Append(subs, sub))

\* Mutant of IntegrationLoop: every sub-step is integration_timestep_size
\* long, the last one too, so the loop may run past the macro boundary.
IntegrationLoop_Overshoots(self, c, total_action, final_date, d, s, subs) ==
    IF ~(d < final_date)
    THEN Returned([current_date |-> d, current_storage |-> s, subs |-> subs])
    ELSE LoopBody(self, c, total_action, final_date,
                  d + c.integration_timestep_size, s, subs,
                  SubStep(c.integration_timestep_size, s,
                          storage_to_surface(c, s),
                          c.evap_rates[determine_month(self) + 1],
                          final_date - self.current_date,
                          storage_to_minmax(c, s), total_action))

IntegrationLoop(self, c, total_action, final_date, d, s, subs) ==
    IF ~(d < final_date)
    THEN Returned([current_date |-> d, current_storage |-> s, subs |-> subs])
    ELSE LoopBody(self, c, total_action, final_date,
                  Min2(final_date, d + c.integration_timestep_size), s, subs,
                  SubStep(Min2(final_date, d + c.integration_timestep_size) - d, s,
                          storage_to_surface(c, s),
                          c.evap_rates[determine_month(self) + 1],
                          final_date - self.current_date,
                          storage_to_minmax(c, s), total_action))

\* The shares recorded in split_release: action / total_action per component,
\* kept as the pair <<action, total_action>>.
SplitShares(actions, total_action) ==
    [k \in 1..Len(actions) |-> <<actions[k], total_action>>]

SubReleases(subs) == [k \in 1..Len(subs) |-> subs[k].release]

\* Mutant of RecordOutflow: stored_water is not updated with the new storage.
RecordOutflow_KeepsStoredWater(self, c, actions, total_action, current_storage, average_release) ==
    [self EXCEPT
        !.storage_vector = Append(@, current_storage),
        !.level_vector = Append(@, storage_to_level(c, current_storage)),
        !.release_vector = Append(@, average_release),
        !.split_release = IF self.should_split_release /\ total_action # 0
                          THEN SplitShares(actions, total_action) ELSE @]

\* The part of Reservoir.determine_outflow after the loop: the histories are
\* appended to and the average release is returned.
RecordOutflow(self, c, actions, total_action, current_storage, average_release) ==
    [self EXCEPT
        !.storage_vector = Append(@, current_storage),
        !.stored_water = current_storage,
        !.level_vector = Append(@, storage_to_level(c, current_storage)),
        !.release_vector = Append(@, average_release),
        !.split_release = IF self.should_split_release /\ total_action # 0
                          THEN SplitShares(actions, total_action) ELSE @]

\* A determine_outflow that records the storage, level and release reached
\* so far when the inflow read faults.
AfterLoop_RecordsOnFault(self, c, actions, total_action, loop) ==
    [ fault |-> loop.fault,
      value |->
        [ self |-> RecordOutflow([self EXCEPT !.current_date = loop.value.current_date],
                                 c, actions, total_action,
                                 loop.value.current_storage,
                                 Mean(SubReleases(loop.value.subs))),
          outflow |-> Mean(SubReleases(loop.value.subs)),
          subs |-> loop.value.subs ] ]

AfterLoop(self, c, actions, total_action, loop) ==
    IF loop.fault
    THEN Raised([ self |-> [self EXCEPT !.current_date = loop.value.current_date],
                  outflow |-> None, subs |-> loop.value.subs ])
    ELSE Returned(
           [ self |-> RecordOutflow([self EXCEPT !.current_date = loop.value.current_date],
                                    c, actions, total_action,
                                    loop.value.current_storage,
                                    Mean(SubReleases(loop.value.subs))),
             outflow |-> Mean(SubReleases(loop.value.subs)),
             subs |-> loop.value.subs ])

\* Reservoir.determine_outflow: value.self is the reservoir afterwards,
\* value.outflow the average release it returns.
Reservoir_determine_outflow(self, c, actions, timestep_size) ==
    AfterLoop(self, c, actions, SumSeq(actions),
              IntegrationLoop(self, c, SumSeq(actions), self.current_date + timestep_size,
                              self.current_date, Last(self.storage_vector), <<>>))

Reservoir_determine_observation(self) == self.stored_water

Reservoir_determine_reward(self, c) ==
    Objective(self.objective_function, <<storage_to_level(c, self.stored_water)>>)

Reservoir_is_terminated(self) ==
    self.stored_water > self.max_capacity \/ self.stored_water < 0

Reservoir_determine_info(self, c) ==
    [ name |-> self.name,
      stored_water |-> self.stored_water,
      current_level |-> IF self.level_vector # <<>> THEN Last(self.level_vector) ELSE None,
      current_release |-> IF self.release_vector # <<>> THEN Last(self.release_vector) ELSE None,
      evaporation_rates |-> c.evap_rates ]

\* Mutant of Reservoir_reset: the level history survives the reset.
Reservoir_reset_KeepsLevels(self) ==
    [Facility_reset(self) EXCEPT
        !.storage_vector = <<self.storage_vector[1]>>,
        !.stored_water = self.storage_vector[1],
        !.release_vector = <<>>]

Reservoir_reset(self) ==
    [Facility_reset(self) EXCEPT
        !.storage_vector = <<self.storage_vector[1]>>,
        !.stored_water = self.storage_vector[1],
        !.level_vector = <<>>,
        !.release_vector = <<>>]

\* What a node's step returns (and the node afterwards).
StepResult(self, obs, reward, terminated, truncated, info, subs) ==
    [ self |-> self, observation |-> obs, reward |-> reward,
      terminated |-> terminated, truncated |-> truncated, info |-> info,
      subs |-> subs ]

\* ControlledFacility.step after all_outflow.append(...): self has the outflow
\* appended; the counter is incremented last.
ControlledFacility_observe(self, c, subs) ==
    StepResult([self EXCEPT !.timestep = @ + 1],
               Reservoir_determine_observation(self),
               Reservoir_determine_reward(self, c),
               Reservoir_is_terminated(self),
               FALSE,
               Reservoir_determine_info(self, c),
               subs)

ControlledFacility_append(c, out) ==
    IF out.fault
    THEN Raised(StepResult(out.value.self, None, None, FALSE, FALSE, None, out.value.subs))
    ELSE Returned(ControlledFacility_observe(
            [out.value.self EXCEPT !.all_outflow = Append(@, out.value.outflow)],
            c, out.value.subs))

\* ControlledFacility.step for a reservoir.
ControlledFacility_step(self, c, action, timestep_size) ==
    ControlledFacility_append(c, Reservoir_determine_outflow(self, c, action, timestep_size))

-----------------------------------------------------------------------------
(* IrrigationDistrict *)

IrrigationDistrict_init(c) ==
    [ kind |-> "irrigation", total_deficit |-> 0, all_deficit |-> <<>> ]
    @@ Facility_init(c.name, c.objective_function, c.objective_name)

get_current_demand(self, c) == c.all_demand[(self.timestep % Len(c.all_demand)) + 1]

\* A consumption that takes the whole demand whatever the inflow.
IrrigationDistrict_determine_consumption_TakesDemand(self, c) ==
    get_current_demand(self, c)

IrrigationDistrict_determine_consumption(self, c) ==
    Min2(get_current_demand(self, c), get_inflow(self, self.timestep))

\* IrrigationDistrict.determine_deficit: the district afterwards.  Nothing in
\* the sources calls it: Facility.step reaches determine_consumption,
\* determine_reward, is_truncated and determine_info only.
IrrigationDistrict_determine_deficit(self, c) ==
    [self EXCEPT
        !.total_deficit = @ + (get_current_demand(self, c)
                               - IrrigationDistrict_determine_consumption(self, c)),
        !.all_deficit = Append(@, get_current_demand(self, c)
                                  - IrrigationDistrict_determine_consumption(self, c))]

IrrigationDistrict_determine_reward(self, c) ==
    Objective(self.objective_function,
              <<get_current_demand(self, c), get_inflow(self, self.timestep)>>)

IrrigationDistrict_is_truncated(self, c) == self.timestep >= Len(c.all_demand)

IrrigationDistrict_determine_info(self, c) ==
    [ name |-> self.name,
      inflow |-> get_inflow(self, self.timestep),
      outflow |-> get_outflow(self, self.timestep),
      demand |-> get_current_demand(self, c),
      total_deficit |-> self.total_deficit,
      list_deficits |-> self.all_deficit ]

IrrigationDistrict_reset(self) ==
    [Facility_reset(self) EXCEPT !.total_deficit = 0, !.all_deficit = <<>>]

\* Mutant of IrrigationDistrict_determine_outflow: nothing is consumed.
IrrigationDistrict_determine_outflow_NoConsumption(self, c) ==
    get_inflow(self, self.timestep)

\* Facility.determine_outflow for an irrigation district.
IrrigationDistrict_determine_outflow(self, c) ==
    get_inflow(self, self.timestep) - IrrigationDistrict_determine_consumption(self, c)

\* Facility.step after all_outflow.append(...), for an irrigation district.
IrrigationDistrict_observe(self, c) ==
    StepResult([self EXCEPT !.timestep = @ + 1],
               None,
               IrrigationDistrict_determine_reward(self, c),
               FALSE,
               IrrigationDistrict_is_truncated(self, c),
               IrrigationDistrict_determine_info(self, c),
               <<>>)

\* Facility.step for an irrigation district.
IrrigationDistrict_step(self, c) ==
    IF ~HasInflow(self, self.timestep)
    THEN Raised(StepResult(self, None, None, FALSE, FALSE, None, <<>>))
    ELSE Returned(IrrigationDistrict_observe(
            [self EXCEPT !.all_outflow =
                Append(@, IrrigationDistrict_determine_outflow(self, c))], c))

-----------------------------------------------------------------------------
(* PowerPlant *)

\* scipy.constants.g = 9.80665, in units of 1e-5 m/s2.
G == 980665

SecondsPerHour == 3600

PowerPlant_init(c) ==
    [ kind |-> "power_plant", production_vector |-> <<>> ]
    @@ Facility_init(c.name, c.objective_function, c.objective_name)

\* A turbine flow without the lower clamp.
determine_turbine_flow_NoFloor(self, c) ==
    Min2(c.max_turbine_flow, get_inflow(self, self.timestep))

determine_turbine_flow(self, c) ==
    Max2(c.min_turbine_flow, Min2(c.max_turbine_flow, get_inflow(self, self.timestep)))

\* water_level = self.reservoir.level_vector[-1] if self.reservoir.level_vector else 0
WaterLevel(reservoir) ==
    IF reservoir.level_vector # <<>> THEN Last(reservoir.level_vector) ELSE 0

\* A determine_production without the rated-capacity cap.
Production_Uncapped(self, c, reservoir, timestep_size) ==
    determine_turbine_flow(self, c)
      * Max2(0, WaterLevel(reservoir) - c.head_start_level) * G * c.efficiency
    * (timestep_size \div SecondsPerHour)

\* The value PowerPlant.determine_production returns and appends to
\* production_vector, given the reservoir it reads its head from.
\* m3_to_kg_factor * g * w_Mw_conversion = 1000 * 9.80665 * 1e-6; with the
\* efficiency in tenths the power is in units of 1e-9 MW.
Production(self, c, reservoir, timestep_size) ==
    Min2(c.max_capacity,
         determine_turbine_flow(self, c)
           * Max2(0, WaterLevel(reservoir) - c.head_start_level) * G * c.efficiency)
    * (timestep_size \div SecondsPerHour)

PowerPlant_determine_consumption(self, c) ==
    determine_turbine_flow(self, c) * c.water_usage

PowerPlant_determine_info(self, c) ==
    [ name |-> self.name,
      inflow |-> get_inflow(self, self.timestep),
      outflow |-> get_outflow(self, self.timestep),
      monthly_production |-> Last(self.production_vector),
      water_usage |-> c.water_usage,
      total_production |-> SumSeq(self.production_vector) ]

\* A reset that keeps the recorded productions.
PowerPlant_reset_KeepsProduction(self) == Facility_reset(self)

PowerPlant_reset(self) ==
    [Facility_reset(self) EXCEPT !.production_vector = <<>>]

\* Facility.determine_outflow for a power plant.
PowerPlant_determine_outflow(self, c) ==
    get_inflow(self, self.timestep) - PowerPlant_determine_consumption(self, c)

\* Facility.step after determine_reward, for a power plant: self has the
\* outflow and the production appended.
PowerPlant_observe(self, c) ==
    StepResult([self EXCEPT !.timestep = @ + 1],
               None,
               Objective(self.objective_function, <<Last(self.production_vector)>>),
               FALSE,
               FALSE,
               PowerPlant_determine_info(self, c),
               <<>>)

\* PowerPlant.determine_reward's call of determine_production, which appends
\* the production to production_vector.
PowerPlant_produce(self, c, reservoir, timestep_size) ==
    [self EXCEPT !.production_vector =
        Append(@, Production(self, c, reservoir, timestep_size))]

\* Facility.step for a power plant.
PowerPlant_step(self, c, reservoir, timestep_size) ==
    IF ~HasInflow(self, self.timestep)
    THEN Raised(StepResult(self, None, None, FALSE, FALSE, None, <<>>))
    ELSE Returned(PowerPlant_observe(
            PowerPlant_produce(
                [self EXCEPT !.all_outflow =
                    Append(@, PowerPlant_determine_outflow(self, c))],
                c, reservoir, timestep_size),
            c))

-----------------------------------------------------------------------------
(* Flow and Inflow edges (core/models/flow.py), after the specification:    *)
(* an edge takes its source's outflow of the current timestep, or for an    *)
(* Inflow the next value of its record, and writes it as inflow to its      *)
(* destination at the same timestep index.  The record is an input: each    *)
(* step draws the value from inflow_vals.                                   *)

Flow_init(c) == [ kind |-> c.kind, name |-> c.name, current_date |-> None, timestep |-> 0 ]

Flow_reset(self) == [self EXCEPT !.timestep = 0]

Flow_write(ws, i, c, flow, written) ==
    IF written.fault
    THEN Raised([ws |-> ws, reward |-> None, terminated |-> FALSE,
                 truncated |-> FALSE, info |-> None])
    ELSE Returned(
           [ ws |-> [ws EXCEPT ![c.destination] = written.value,
                               ![i].timestep = @ + 1],
             reward |-> 0, terminated |-> FALSE, truncated |-> FALSE,
             info |-> [name |-> ws[i].name, flow |-> flow] ])

Flow_route(ws, i, c, flow) ==
    Flow_write(ws, i, c, flow, set_inflow(ws[c.destination], ws[i].timestep, flow))

\* Flow.step on the node list ws: value.ws is the node list afterwards.
Flow_step(ws, i, c, record_value) ==
    IF c.kind = "inflow"
    THEN Flow_route(ws, i, c, record_value)
    ELSE IF ~HasOutflow(ws[c.source], ws[i].timestep)
    THEN Raised([ws |-> ws, reward |-> None, terminated |-> FALSE,
                 truncated |-> FALSE, info |-> None])
    ELSE Flow_route(ws, i, c, get_outflow(ws[c.source], ws[i].timestep))

-----------------------------------------------------------------------------
(* WaterManagementSystem *)

\* The node object each constructor of the configuration builds.
Construct(c) ==
    CASE c.kind = "reservoir" -> Reservoir_init(c)
      [] c.kind = "power_plant" -> PowerPlant_init(c)
      [] c.kind = "irrigation" -> IrrigationDistrict_init(c)
      [] OTHER -> Flow_init(c)

\* The controlled facilities of the node list, in list order.
ControlledIds == SelectSeq([i \in NodeIds |-> i], IsControlled)

\* WaterManagementSystem._determine_observation
determine_observation(ws) ==
    [k \in 1..Len(ControlledIds) |-> Reservoir_determine_observation(ws[ControlledIds[k]])]

\* Mutant of ZeroRewards: the buckets keep their values.
ZeroRewards_Keeps(rw) == rw

\* for key in self.rewards.keys(): d[key] = 0
ZeroRewards(rw) == [k \in 1..Len(rw) |-> [key |-> rw[k].key, value |-> 0]]

HasKey(rw, key) == \E k \in 1..Len(rw) : rw[k].key = key

\* final_reward[key] += reward
AddReward(rw, key, reward) ==
    [k \in 1..Len(rw) |-> IF rw[k].key = key
                          THEN [rw[k] EXCEPT !.value = @ + reward] ELSE rw[k]]

\* np.array(list(final_reward.values())).flatten()
RewardVector(rw) == [k \in 1..Len(rw) |-> rw[k].value]

\* water_system.reset() by kind
NodeReset(self) ==
    CASE self.kind = "reservoir" -> Reservoir_reset(self)
      [] self.kind = "power_plant" -> PowerPlant_reset(self)
      [] self.kind = "irrigation" -> IrrigationDistrict_reset(self)
      [] OTHER -> Flow_reset(self)

\* A facility's step result r placed on the node list: node i replaced.
OnList(ws, i, r) ==
    [ fault |-> r.fault,
      value |-> [ ws |-> [ws EXCEPT ![i] = r.value.self] ] @@ r.value ]

\* A flow's step result, which has neither observation nor sub-steps.
FlowOnList(r) ==
    [ fault |-> r.fault,
      value |-> r.value @@ [ observation |-> None, subs |-> <<>> ] ]

\* water_system.step(...) by kind, on the node list ws with node i's clock
\* already set: the node list afterwards and what the step returned.
NodeStep(ws, i, c, actions, inflows) ==
    CASE c.kind = "reservoir" ->
           OnList(ws, i, ControlledFacility_step(ws[i], c, actions[i], Config.timestep_size))
      [] c.kind = "irrigation" ->
           OnList(ws, i, IrrigationDistrict_step(ws[i], c))
      [] c.kind = "power_plant" ->
           OnList(ws, i, PowerPlant_step(ws[i], c, ws[c.reservoir], Config.timestep_size))
      [] c.kind = "inflow" ->
           FlowOnList(Flow_step(ws, i, c, inflows[i]))
      [] OTHER ->
           FlowOnList(Flow_step(ws, i, c, 0))

\* The orchestrator's loop state before the first node.
LoopStart(ws, rw, date) ==
    [ ws |-> ws,
      final_reward |-> ZeroRewards(rw),
      final_observation |-> <<>>,
      final_terminated |-> FALSE,
      final_truncated |-> FALSE,
      final_info |-> ("date" :> date),
      log |-> <<>>,
      fault |-> FALSE ]

\* if water_system.objective_name: (for a Facility or ControlledFacility)
DeclaresObjective(i, self) ==
    (IsFacility(i) \/ IsControlled(i)) /\ self.objective_name # ""

\* The loop body after node i's step returned v: observation, reward, info
\* and flags are accumulated.
Accumulate(ls, i, name, objective, v) ==
    [ ws |-> v.ws,
      final_reward |-> IF objective # ""
                       THEN AddReward(ls.final_reward, objective, v.reward)
                       ELSE ls.final_reward,
      final_observation |-> IF IsControlled(i)
                            THEN Append(ls.final_observation, v.observation)
                            ELSE ls.final_observation,
      final_terminated |-> ls.final_terminated \/ v.terminated,
      final_truncated |-> ls.final_truncated \/ v.truncated,
      final_info |-> (name :> v.info) @@ ls.final_info,
      log |-> Append(ls.log, [ node |-> i, reward |-> v.reward,
                               terminated |-> v.terminated,
                               truncated |-> v.truncated, subs |-> v.subs ]),
      fault |-> FALSE ]

\* Mutant of ShouldBreak: the loop never stops early.
ShouldBreak_Never(final_terminated, final_truncated) == FALSE

\* if final_terminated or final_truncated: break
ShouldBreak(final_terminated, final_truncated) == final_terminated \/ final_truncated

\* for water_system in self.water_systems: ... from node i on.
RECURSIVE StepLoop(_, _, _, _, _)
Continue(ls, i, actions, inflows, date) ==
    IF ShouldBreak(ls.final_terminated, ls.final_truncated)
    THEN ls
    ELSE StepLoop(ls, i + 1, actions, inflows, date)

Collect(ls, i, objective, actions, inflows, date, r) ==
    IF r.fault \/ (objective # "" /\ ~HasKey(ls.final_reward, objective))
    THEN [ls EXCEPT !.ws = r.value.ws, !.fault = TRUE]
    ELSE Continue(Accumulate(ls, i, ls.ws[i].name, objective, r.value),
                  i, actions, inflows, date)

\* Mutant of StepLoop: the node's clock is not set to the orchestrator's
\* before the node is stepped.
StepLoop_KeepsNodeClock(ls, i, actions, inflows, date) ==
    IF i > Len(ls.ws) THEN ls
    ELSE Collect(ls, i,
                 IF DeclaresObjective(i, ls.ws[i]) THEN ls.ws[i].objective_name ELSE "",
                 actions, inflows, date,
                 NodeStep(ls.ws, i, NodeCfg(i), actions, inflows))

StepLoop(ls, i, actions, inflows, date) ==
    IF i > Len(ls.ws) THEN ls
    ELSE Collect(ls, i,
                 IF DeclaresObjective(i, ls.ws[i]) THEN ls.ws[i].objective_name ELSE "",
                 actions, inflows, date,
                 NodeStep([ls.ws EXCEPT ![i].current_date = date], i, NodeCfg(i),
                          actions, inflows))

ReservoirIds == {i \in NodeIds : NodeCfg(i).kind = "reservoir"}

InflowIds == {i \in NodeIds : NodeCfg(i).kind = "inflow"}

\* The action maps and inflow-record values a step may be given.
ActionMaps == [ReservoirIds -> UNION {NodeCfg(i).action_vals : i \in ReservoirIds}]

InflowMaps == [InflowIds -> UNION {NodeCfg(i).inflow_vals : i \in InflowIds}]

ValidInputs(actions, inflows) ==
    /\ \A i \in ReservoirIds : actions[i] \in NodeCfg(i).action_vals
    /\ \A i \in InflowIds : inflows[i] \in NodeCfg(i).inflow_vals

\* WaterManagementSystem.__init__
Init ==
    /\ cfg \in ShortRuns
    /\ water_systems = [i \in NodeIds |->
            [Construct(NodeCfg(i)) EXCEPT !.current_date = Config.start_date]]
    /\ current_date = Config.start_date
    /\ timestep = 0
    /\ rewards = Config.rewards
    /\ observation = determine_observation(water_systems)
    /\ ret = [op |-> "init", fault |-> FALSE, observation |-> observation]
    /\ log = <<>>

\* The end of WaterManagementSystem.step: the counter and the clock advance
\* and the results are returned; a fault leaves the loop before that.
Return(ls, actions, inflows) ==
    /\ water_systems' = ls.ws
    /\ log' = ls.log
    /\ IF ls.fault
       THEN /\ ret' = [op |-> "step", fault |-> TRUE,
                       actions |-> actions, inflows |-> inflows]
            /\ UNCHANGED <<timestep, current_date>>
       ELSE /\ ret' = [ op |-> "step", fault |-> FALSE,
                        observation |-> ls.final_observation,
                        reward |-> RewardVector(ls.final_reward),
                        terminated |-> ls.final_terminated,
                        truncated |-> ls.final_truncated,
                        info |-> ls.final_info,
                        actions |-> actions, inflows |-> inflows ]
            /\ timestep' = timestep + 1
            /\ current_date' = current_date + Config.timestep_size

\* WaterManagementSystem.step(action)
Step ==
    /\ timestep < (IF cfg = LongRun THEN MaxMonths ELSE MaxSteps)
    /\ \E actions \in ActionMaps, inflows \in InflowMaps :
         /\ ValidInputs(actions, inflows)
         /\ Return(StepLoop(LoopStart(water_systems, rewards, current_date), 1,
                            actions, inflows, current_date),
                   actions, inflows)
    /\ UNCHANGED <<cfg, rewards, observation>>

\* WaterManagementSystem.reset(): the observation is taken from the nodes
\* before they are reset.  ret.after_steps notes how many steps the episode
\* that ends here had.
Reset ==
    /\ current_date' = Config.start_date
    /\ timestep' = 0
    /\ observation' = determine_observation(water_systems)
    /\ rewards' = ZeroRewards(rewards)
    /\ water_systems' = [i \in NodeIds |->
            NodeReset([water_systems[i] EXCEPT !.current_date = Config.start_date])]
    /\ ret' = [op |-> "reset", fault |-> FALSE, observation |-> observation',
                after_steps |-> timestep]
    /\ log' = <<>>
    /\ UNCHANGED cfg

Next == Step \/ Reset

Spec == Init /\ [][Next]_vars

-----------------------------------------------------------------------------
(* One episode over the seasons: SeasonsConfig stepped MaxMonths times.     *)

SeasonsInit ==
    /\ cfg = LongRun
    /\ water_systems = [i \in NodeIds |->
            [Construct(NodeCfg(i)) EXCEPT !.current_date = Config.start_date]]
    /\ current_date = Config.start_date
    /\ timestep = 0
    /\ rewards = Config.rewards
    /\ observation = determine_observation(water_systems)
    /\ ret = [op |-> "init", fault |-> FALSE, observation |-> observation]
    /\ log = <<>>

SeasonsSpec == SeasonsInit /\ [][Step]_vars

-----------------------------------------------------------------------------
(* The inflow ledger on its own: one node, a Facility or a                  *)
(* ControlledFacility (both define the same get_inflow and set_inflow),     *)
(* called directly with any slot index.                                     *)

InflowValues == {3, 5}

\* A freshly constructed node of either class.
LedgerInit ==
    /\ cfg = 0
    /\ water_systems \in { <<Facility_init("node", "no_objective", "")>>,
                           <<ControlledFacility_init("node", 1, "no_objective", "", Inf)>> }
    /\ current_date = 0
    /\ timestep = 0
    /\ rewards = <<>>
    /\ observation = <<>>
    /\ ret = [op |-> "init", fault |-> FALSE]
    /\ log = <<>>

\* node.set_inflow(t, v)
SetInflow ==
    /\ \E t \in 0..(MaxSlots - 1), v \in InflowValues :
         /\ t < Len(water_systems[1].all_inflow)
              => water_systems[1].all_inflow[t + 1] + v <= MaxVolume
         /\ water_systems' = <<set_inflow(water_systems[1], t, v).value>>
         /\ ret' = [op |-> "set_inflow", timestep |-> t, inflow |-> v,
                    fault |-> set_inflow(water_systems[1], t, v).fault]
    /\ UNCHANGED <<cfg, current_date, timestep, rewards, observation, log>>

\* node.get_inflow(t)
GetInflow ==
    /\ \E t \in 0..MaxSlots :
         ret' = [op |-> "get_inflow", timestep |-> t,
                 fault |-> get_inflow_call(water_systems[1], t).fault,
                 value |-> get_inflow_call(water_systems[1], t).value]
    /\ UNCHANGED <<cfg, water_systems, current_date, timestep, rewards, observation, log>>

\* node.reset()
LedgerReset ==
    /\ water_systems' = <<Facility_reset(water_systems[1])>>
    /\ ret' = [op |-> "reset", fault |-> FALSE]
    /\ UNCHANGED <<cfg, current_date, timestep, rewards, observation, log>>

LedgerNext == SetInflow \/ GetInflow \/ LedgerReset

LedgerSpec == LedgerInit /\ [][LedgerNext]_vars

-----------------------------------------------------------------------------
(* Properties *)

\* The divisions of the model are exact on every state reached: the
\* interpolated levels, surfaces and release bounds and the mean release are
\* the values the code computes.
DivisionsExact ==
    \A k \in 1..Len(log) :
      LET c == NodeCfg(log[k].node)
          subs == log[k].subs
      IN  c.kind = "reservoir" =>
            /\ SumSeq(SubReleases(subs)) % Len(subs) = 0
            /\ InterpExact(water_systems[log[k].node].stored_water,
                           c.storage_to_level_rel[1], c.storage_to_level_rel[2])
            /\ \A j \in 1..Len(subs) :
                 /\ InterpExact(subs[j].storage, c.storage_to_surface_rel[1],
                                c.storage_to_surface_rel[2])
                 /\ InterpExact(subs[j].storage, c.storage_to_minmax_rel[1],
                                c.storage_to_minmax_rel[2])
                 /\ InterpExact(subs[j].storage, c.storage_to_minmax_rel[1],
                                c.storage_to_minmax_rel[3])
                 /\ (subs[j].surface * c.evap_rates[((water_systems[log[k].node].timestep - 1) % 12) + 1]) % 100 = 0
                 /\ (((subs[j].surface * c.evap_rates[((water_systems[log[k].node].timestep - 1) % 12) + 1]) \div 100)
                        * subs[j].seconds) % Config.timestep_size = 0

\* The last call was a step that returned.
Stepped == ret.op = "step" /\ ~ret.fault

\* The observation computed right after construction: the configured initial
\* stored volume of every controlled facility, in list order.
InitialObservation ==
    [k \in 1..Len(ControlledIds) |-> NodeCfg(ControlledIds[k]).stored_water]

\* C1: after any number of steps, reset() returns the observation computed
\* right after construction.
C1_ResetReturnsInitialObservation ==
    ret.op = "reset" => ret.observation = InitialObservation

\* A node in its episode-zero state.
EpisodeZero(i) ==
    LET self == water_systems[i]
        c == NodeCfg(i)
    IN  /\ self.timestep = 0
        /\ ~IsFlow(i) => self.all_inflow = <<>> /\ self.all_outflow = <<>>
        /\ c.kind = "reservoir" =>
             /\ self.storage_vector = <<c.stored_water>>
             /\ self.stored_water = c.stored_water
             /\ self.level_vector = <<>>
             /\ self.release_vector = <<>>
        /\ c.kind = "irrigation" =>
             self.total_deficit = 0 /\ self.all_deficit = <<>>
        /\ c.kind = "power_plant" => self.production_vector = <<>>

\* C2: after any sequence of steps followed by reset(), every node and the
\* orchestrator are in their episode-zero state.
C2_ResetRestoresEpisodeZero ==
    ret.op = "reset" =>
        /\ \A i \in NodeIds : EpisodeZero(i)
        /\ timestep = 0
        /\ current_date = Config.start_date
        /\ \A k \in 1..Len(rewards) : rewards[k].value = 0

\* A reset that ended an episode of at least two steps, in a configuration
\* with a reservoir, a power plant and an irrigation district.
C2_Witness ==
    /\ ret.op = "reset"
    /\ ret.after_steps >= 2
    /\ cfg = 1
    /\ observation # InitialObservation

\* C3: a reservoir's step reports terminated exactly when its stored volume
\* after the step lies outside [0, max_capacity], max_capacity being the value
\* given to the Reservoir constructor.
C3_TerminatedIffOutsideCapacity ==
    \A k \in 1..Len(log) :
      LET i == log[k].node
      IN  NodeCfg(i).kind = "reservoir" =>
            (log[k].terminated <=>
                \/ water_systems[i].stored_water < 0
                \/ water_systems[i].stored_water > NodeCfg(i).max_capacity)

\* The flags a step returns are the OR of the flags of the nodes it stepped.
FlagsAreOrOfStepped(r, l) ==
    /\ r.terminated <=> \E k \in 1..Len(l) : l[k].terminated
    /\ r.truncated <=> \E k \in 1..Len(l) : l[k].truncated

\* The nodes a returned step stepped are the first Len(log) of the list, and
\* if there are later ones, the last one stepped reported a flag.
SteppedPrefix(l) ==
    /\ \A k \in 1..Len(l) : l[k].node = k
    /\ Len(l) < Len(Config.water_systems) =>
         l[Len(l)].terminated \/ l[Len(l)].truncated
    /\ \A k \in 1..(Len(l) - 1) : ~l[k].terminated /\ ~l[k].truncated

\* C4 as claimed: in one orchestrator step no node after the first that
\* reports termination or truncation is stepped; every later node, all_inflow
\* included, is as it was before the step, and the returned flags are the OR
\* of the flags of the nodes stepped.
C4_LaterNodesUnchanged ==
    [][ (timestep' = timestep + 1) =>
          /\ SteppedPrefix(log')
          /\ FlagsAreOrOfStepped(ret', log')
          /\ \A j \in NodeIds : j > Len(log') => water_systems'[j] = water_systems[j]
      ]_vars

\* The flow written by edge e in the step that led to the primed state.
\* (The edge's counter has advanced, so its slot is timestep - 1.)
WrittenBy(ws, r, e) ==
    IF NodeCfg(e).kind = "inflow" THEN r.inflows[e]
    ELSE get_outflow(ws[NodeCfg(e).source], ws[e].timestep - 1)

\* The sum of the flows the edges among the first n nodes wrote to node i.
RECURSIVE WrittenTo(_, _, _, _)
WrittenTo(ws, r, i, n) ==
    IF n = 0 THEN 0
    ELSE WrittenTo(ws, r, i, n - 1)
         + (IF IsFlow(n) /\ NodeCfg(n).destination = i THEN WrittenBy(ws, r, n) ELSE 0)

HasWriter(i, n) == \E e \in 1..n : IsFlow(e) /\ NodeCfg(e).destination = i

\* all_inflow after the edges among the first n nodes, stepped in the call
\* that led to ws, made their set_inflow writes to node j, starting from old.
RECURSIVE InflowAfterWrites(_, _, _, _, _)
InflowAfterWrites(old, ws, r, j, n) ==
    IF n = 0 THEN old
    ELSE IF IsFlow(n) /\ NodeCfg(n).destination = j
    THEN set_inflow([all_inflow |-> InflowAfterWrites(old, ws, r, j, n - 1)],
                    ws[n].timestep - 1, WrittenBy(ws, r, n)).value.all_inflow
    ELSE InflowAfterWrites(old, ws, r, j, n - 1)

\* C4 amended: a later node is not stepped; its all_outflow, node-specific
\* histories, clock and timestep counter are as before, and its all_inflow is
\* changed only by the set_inflow writes of the edges stepped earlier in the
\* same call; the flags are the OR over the nodes stepped.
C4_LaterNodesNotStepped ==
    [][ (timestep' = timestep + 1) =>
          /\ SteppedPrefix(log')
          /\ FlagsAreOrOfStepped(ret', log')
          /\ \A j \in NodeIds : j > Len(log') =>
               IF IsFlow(j)
               THEN water_systems'[j] = water_systems[j]
               ELSE /\ [water_systems'[j] EXCEPT !.all_inflow = water_systems[j].all_inflow]
                         = water_systems[j]
                    /\ water_systems'[j].all_inflow =
                         InflowAfterWrites(water_systems[j].all_inflow,
                                           water_systems', ret', j, Len(log'))
      ]_vars

\* A step that stopped early with nodes left, one of which had inflow written
\* by an edge stepped before the stop.
C4_Witness ==
    /\ Stepped
    /\ ret.truncated
    /\ Len(log) < Len(water_systems)
    /\ \E j \in NodeIds :
         /\ j > Len(log)
         /\ ~IsFlow(j)
         /\ Len(water_systems[j].all_inflow) > water_systems[j].timestep

\* C5: mass balance.  A reservoir step in a month of zero evaporation rate,
\* with a single-component action a inside the release bounds of every
\* sub-step, changes the storage by inflow[t] * duration - a * duration,
\* whether or not the sub-step size divides the timestep.
C5_MassBalance ==
    \A k \in 1..Len(log) :
      LET i == log[k].node
          c == NodeCfg(i)
          self == water_systems[i]
          t == self.timestep - 1
          a == ret.actions[i]
      IN  ( /\ Stepped
            /\ c.kind = "reservoir"
            /\ Len(a) = 1
            /\ c.evap_rates[(t % 12) + 1] = 0
            /\ \A j \in 1..Len(log[k].subs) :
                 log[k].subs[j].min_release <= a[1] /\ a[1] <= log[k].subs[j].max_release )
          => self.storage_vector[t + 2] - self.storage_vector[t + 1]
               = get_inflow(self, t) * Config.timestep_size - a[1] * Config.timestep_size

\* Such a step with two sub-steps of different lengths (2700 s and 900 s of a
\* 3600 s timestep), a nonzero inflow and a nonzero release.
C5_Witness ==
    /\ Stepped
    /\ cfg = 4
    /\ Len(log) = 2
    /\ ret.actions[2] = <<2>>
    /\ ret.inflows[1] = 4
    /\ Len(log[2].subs) = 2
    /\ log[2].subs[1].seconds # log[2].subs[2].seconds
    /\ \A j \in 1..2 : log[2].subs[j].min_release <= 2 /\ 2 <= log[2].subs[j].max_release
    /\ NodeCfg(2).evap_rates[((water_systems[2].timestep - 1) % 12) + 1] = 0
    /\ Last(water_systems[2].storage_vector) = 10800

\* C6: inflow writes accumulate.  In a step, the edges stepped write their
\* flows to slot t of their destination, which starts with len(all_inflow) = t:
\* afterwards all_inflow[t] is the sum of what they wrote and every other slot
\* is as before; a node no edge wrote to keeps its all_inflow.
C6_InflowWritesAccumulate ==
    [][ (timestep' = timestep + 1) =>
          \A i \in NodeIds : ~IsFlow(i) =>
            IF HasWriter(i, Len(log'))
            THEN water_systems'[i].all_inflow =
                   Append(water_systems[i].all_inflow,
                          WrittenTo(water_systems', ret', i, Len(log')))
            ELSE water_systems'[i].all_inflow = water_systems[i].all_inflow
      ]_vars

\* Two edges wrote 5 and then 3 to the same empty slot, which now holds 8,
\* after an earlier slot was written.
C6_Witness ==
    /\ Stepped
    /\ cfg = 3
    /\ timestep = 2
    /\ ret.inflows[1] = 5
    /\ ret.inflows[2] = 3
    /\ water_systems[4].all_inflow[2] = 8

\* The demand and the consumption of district i at its step t (0-based).
DemandAt(i, t) == NodeCfg(i).all_demand[(t % Len(NodeCfg(i).all_demand)) + 1]

ConsumptionAt(i, t) == Min2(DemandAt(i, t), water_systems[i].all_inflow[t + 1])

\* C7: every step of an irrigation district records the step's deficit: after
\* k steps all_deficit has k entries, entry t is demand(t) - consumption(t),
\* and total_deficit is their sum.
C7_DeficitRecordedEveryStep ==
    \A i \in NodeIds : NodeCfg(i).kind = "irrigation" =>
      LET self == water_systems[i]
      IN  /\ Len(self.all_deficit) = self.timestep
          /\ \A t \in 0..(self.timestep - 1) :
               self.all_deficit[t + 1] = DemandAt(i, t) - ConsumptionAt(i, t)
          /\ self.total_deficit = SumSeq(self.all_deficit)

\* C8: a district with demand schedule [100, 80] that received 60 and then 90
\* has, after two steps, all_deficit = [40, -10] and total_deficit = 30.
C8_DeficitExample ==
    ( /\ cfg = 3
      /\ water_systems[4].timestep = 2
      /\ water_systems[4].all_inflow = <<60, 90>> )
    => /\ water_systems[4].all_deficit = <<40, -10>>
       /\ water_systems[4].total_deficit = 30

\* C9: the release a reservoir reports for a timestep, appended to
\* release_vector and to all_outflow, is the arithmetic mean of the clamped
\* releases of its sub-steps; in the end-to-end scenario (bounds [0, 50],
\* inflow 30, timestep 3600 s, sub-step 900 s, no evaporation, action 20) the
\* step takes four sub-steps, the storage grows by (30 - 20) * 3600 and the
\* last entry of release_vector is 20.
C9_ReportedReleaseIsMean ==
    Stepped =>
      \A k \in 1..Len(log) :
        LET i == log[k].node
            self == water_systems[i]
            subs == log[k].subs
        IN  NodeCfg(i).kind = "reservoir" =>
              /\ Len(subs) >= 1
              /\ \A j \in 1..Len(subs) :
                   subs[j].release = ClampRelease(SumSeq(ret.actions[i]),
                                                  subs[j].min_release, subs[j].max_release)
              /\ Last(self.release_vector) * Len(subs) = SumSeq(SubReleases(subs))
              /\ Last(self.all_outflow) = Last(self.release_vector)
              /\ (cfg = 2 /\ ret.actions[i] = <<20>>) =>
                   /\ Len(subs) = 4
                   /\ ret.inflows[1] = 30
                   /\ Last(self.storage_vector)
                        = self.storage_vector[Len(self.storage_vector) - 1] + (30 - 20) * 3600
                   /\ Last(self.release_vector) = 20

\* The end-to-end scenario after its first step.
C9_Witness ==
    /\ Stepped
    /\ cfg = 2
    /\ timestep = 1
    /\ ret.actions[2] = <<20>>
    /\ Len(log[2].subs) = 4
    /\ water_systems[2].storage_vector = <<500, 36500>>
    /\ water_systems[2].release_vector = <<20>>

\* The sum of the rewards of the first n nodes stepped that declare objective key.
RECURSIVE RewardOf(_, _, _)
RewardOf(l, key, n) ==
    IF n = 0 THEN 0
    ELSE RewardOf(l, key, n - 1)
         + (IF ~IsFlow(l[n].node) /\ NodeCfg(l[n].node).objective_name = key
            THEN l[n].reward ELSE 0)

\* C10: the reward vector of a step has one entry per objective name of the
\* rewards mapping, in its order; each entry is the sum of the rewards of the
\* nodes stepped in this step that declare the objective, starting from zero;
\* nodes without an objective contribute to no entry.
C10_RewardPerObjective ==
    Stepped =>
      /\ Len(ret.reward) = Len(Config.rewards)
      /\ \A k \in 1..Len(Config.rewards) :
           ret.reward[k] = RewardOf(log, Config.rewards[k].key, Len(log))

\* A first step, before any reset zeroed the buckets, in which two districts
\* contributed to the same objective whose bucket was configured nonzero.
C10_Witness ==
    /\ Stepped
    /\ cfg = 3
    /\ rewards[1].value # 0
    /\ Len(log) = 5
    /\ log[4].reward < 0
    /\ log[5].reward < 0
    /\ ret.reward = <<log[4].reward + log[5].reward, 0>>

\* C11: every step returns an observation vector with one entry per controlled
\* facility of the node list, in list order, also when the step stopped early;
\* a reservoir's entry is its stored volume after this step's mass balance.
C11_ObservationOfAllControlled ==
    Stepped =>
      /\ Len(ret.observation) = Len(ControlledIds)
      /\ \A k \in 1..Len(ControlledIds) :
           ret.observation[k] = water_systems[ControlledIds[k]].stored_water

\* C12: a district with a demand schedule of length L reports truncated =
\* FALSE on each of its first L - 1 steps after reset and TRUE on its L-th
\* step, the one in which its counter reaches L; so no step computes its
\* demand from a wrapped-around index before truncation was reported.
C12_TruncatedOnLthStep ==
    Stepped =>
      \A k \in 1..Len(log) :
        LET i == log[k].node
        IN  NodeCfg(i).kind = "irrigation" =>
              /\ water_systems[i].timestep <= Len(NodeCfg(i).all_demand)
              /\ log[k].truncated <=>
                   (water_systems[i].timestep = Len(NodeCfg(i).all_demand))

\* C13: inflow ledger faults never pad.  set_inflow(t, v) with t greater
\* than len(all_inflow) raises and leaves all_inflow as it was; get_inflow(t)
\* for a slot t >= len(all_inflow) raises instead of returning a value.  Calls
\* within the ledger's range do not raise.
C13_LedgerFaultsNeverPad ==
    [][ /\ ret'.op = "set_inflow" =>
             IF ret'.timestep > Len(water_systems[1].all_inflow)
             THEN ret'.fault /\ water_systems'[1].all_inflow = water_systems[1].all_inflow
             ELSE ~ret'.fault
        /\ ret'.op = "get_inflow" =>
             IF ret'.timestep >= Len(water_systems[1].all_inflow)
             THEN ret'.fault /\ ret'.value = None
             ELSE ~ret'.fault /\ ret'.value = water_systems[1].all_inflow[ret'.timestep + 1]
      ]_vars

\* A write two slots past the end of a ledger that already holds a slot
\* raised and left the ledger alone.
C13_Witness ==
    /\ ret.op = "set_inflow"
    /\ ret.fault
    /\ Len(water_systems[1].all_inflow) = 1
    /\ ret.timestep = 2

\* C14: the info map of a step holds one payload per node stepped, keyed by
\* the node's name, and the payload of every reservoir, power plant and
\* irrigation district holds at least the node's name, its inflow and its
\* outflow of the timestep just stepped.
C14_InfoHasNameInflowOutflow ==
    Stepped =>
      \A k \in 1..Len(log) :
        LET i == log[k].node
            self == water_systems[i]
        IN  /\ self.name \in DOMAIN ret.info
            /\ ~IsFlow(i) =>
                 /\ {"name", "inflow", "outflow"} \subseteq DOMAIN ret.info[self.name]
                 /\ ret.info[self.name].name = self.name
                 /\ ret.info[self.name].inflow = get_inflow(self, self.timestep - 1)
                 /\ ret.info[self.name].outflow = get_outflow(self, self.timestep - 1)


\* C16: between orchestrator calls, after any sequence of steps and resets
\* (steps taken after a step that reported termination or truncation
\* included), every node's timestep counter equals the orchestrator's.
C16_NodeCountersSynchronised ==
    ~(ret.op = "step" /\ ret.fault) =>
      \A i \in NodeIds : water_systems[i].timestep = timestep


\* C17: for every reservoir, after construction and after any sequence of
\* steps and resets, len(storage_vector) = timestep + 1, len(level_vector) =
\* len(release_vector) = timestep, stored_water = storage_vector[-1] and
\* storage_vector[0] is the configured initial storage.
C17_ReservoirHistoryLengths ==
    \A i \in NodeIds : NodeCfg(i).kind = "reservoir" =>
      LET self == water_systems[i]
      IN  /\ Len(self.storage_vector) = self.timestep + 1
          /\ Len(self.level_vector) = self.timestep
          /\ Len(self.release_vector) = self.timestep
          /\ self.stored_water = Last(self.storage_vector)
          /\ self.storage_vector[1] = NodeCfg(i).stored_water

\* Two reservoirs after three steps, the lower one stepped only twice because
\* the first step stopped at the upper one; both moved away from their
\* initial storage.
C17_Witness ==
    /\ Stepped
    /\ cfg = 5
    /\ Len(log) = 4
    /\ water_systems[2].timestep = 3
    /\ water_systems[4].timestep = 2
    /\ water_systems[2].stored_water # NodeCfg(2).stored_water
    /\ water_systems[4].stored_water # NodeCfg(4).stored_water


\* What passive facility i consumes at its step t, given its ledger.
ConsumptionOf(self, i, t) ==
    IF NodeCfg(i).kind = "irrigation"
    THEN Min2(DemandAt(i, t), self.all_inflow[t + 1])
    ELSE Max2(NodeCfg(i).min_turbine_flow,
              Min2(NodeCfg(i).max_turbine_flow, self.all_inflow[t + 1]))
         * NodeCfg(i).water_usage

\* C18: each successful node step appends exactly one entry to all_outflow
\* and increments the node's timestep by one, so len(all_outflow) = timestep
\* for every facility between steps, after any steps and resets; the entry a
\* passive facility appends is inflow[t] - consumption(t).
C18_OneOutflowPerStep ==
    [][ \A i \in NodeIds : ~IsFlow(i) =>
          /\ Len(water_systems'[i].all_outflow) = water_systems'[i].timestep
          /\ (ret'.op = "step" /\ i <= Len(log')) =>
               /\ water_systems'[i].timestep = water_systems[i].timestep + 1
               /\ Len(water_systems'[i].all_outflow) = Len(water_systems[i].all_outflow) + 1
               /\ SubSeq(water_systems'[i].all_outflow, 1, Len(water_systems[i].all_outflow))
                    = water_systems[i].all_outflow
               /\ IsFacility(i) =>
                    Last(water_systems'[i].all_outflow)
                      = water_systems'[i].all_inflow[water_systems[i].timestep + 1]
                        - ConsumptionOf(water_systems'[i], i, water_systems[i].timestep)
      ]_vars

\* A first step over the whole basin: the plant, which uses no water, passes
\* its inflow of 4 on, and the district, whose demand is 2, passes on 2.
C18_Witness ==
    /\ Stepped
    /\ cfg = 1
    /\ timestep = 1
    /\ Len(log) = 6
    /\ water_systems[4].all_inflow = <<4>>
    /\ water_systems[4].all_outflow = <<4>>
    /\ water_systems[6].all_inflow = <<4>>
    /\ water_systems[6].all_outflow = <<2>>


\* The seconds a node's step spent in sub-steps (none for a passive node).
RECURSIVE SubSeconds(_)
SubSeconds(subs) == IF subs = <<>> THEN 0 ELSE Head(subs).seconds + SubSeconds(Tail(subs))

\* C19: every step call that returns, stopped early or not, advances the
\* orchestrator's timestep by 1 and its current_date by timestep_size, so
\* after k steps since reset timestep = k and current_date = start_date +
\* k * timestep_size; and every node stepped started its step with its clock
\* at the orchestrator's current_date, although a reservoir moved its own
\* clock during the step before.
C19_ClockAdvancesOncePerStep ==
    [][ /\ (ret'.op = "step" /\ ~ret'.fault) =>
             /\ timestep' = timestep + 1
             /\ current_date' = current_date + Config.timestep_size
        /\ current_date' = Config.start_date + timestep' * Config.timestep_size
        /\ ret'.op = "step" =>
             \A k \in 1..Len(log') :
               /\ water_systems'[k].current_date - SubSeconds(log'[k].subs) = current_date
               /\ IsControlled(k) => SubSeconds(log'[k].subs) = Config.timestep_size
      ]_vars

\* The second step of the cascade after a first step that stopped at the
\* upper reservoir: the lower reservoir, whose own clock had not moved, is
\* stepped from the orchestrator's date, one timestep after the start.
C19_Witness ==
    /\ Stepped
    /\ cfg = 5
    /\ timestep = 2
    /\ Len(log) = 4
    /\ water_systems[2].timestep = 2
    /\ water_systems[4].timestep = 1
    /\ water_systems[4].current_date = Config.start_date + 2 * Config.timestep_size


\* C20: in every sub-step of a reservoir step the release applied is the sum
\* of the action components clamped into [min_release, max_release], the
\* bounds being looked up at the storage at the start of that sub-step; so
\* whenever min_release <= max_release the release of every sub-step lies
\* within that sub-step's bounds and the reported mean release lies within the
\* bounds of the step's sub-steps, for any action, negative or over-large.
C20_ReleaseWithinBounds ==
    ret.op = "step" =>
      \A k \in 1..Len(log) :
        LET i == log[k].node
            c == NodeCfg(i)
            self == water_systems[i]
            subs == log[k].subs
            total == SumSeq(ret.actions[i])
        IN  c.kind = "reservoir" =>
              /\ subs[1].storage = self.storage_vector[Len(self.storage_vector) - 1]
              /\ \A j \in 1..Len(subs) :
                   /\ subs[j].min_release =
                        Interp(subs[j].storage, c.storage_to_minmax_rel[1],
                               c.storage_to_minmax_rel[2])
                   /\ subs[j].max_release =
                        Interp(subs[j].storage, c.storage_to_minmax_rel[1],
                               c.storage_to_minmax_rel[3])
                   /\ j < Len(subs) =>
                        subs[j + 1].storage
                          = subs[j].storage
                            + get_inflow(self, self.timestep - 1) * subs[j].seconds
                            - subs[j].evaporation - subs[j].release * subs[j].seconds
                   /\ subs[j].min_release <= subs[j].max_release =>
                        /\ subs[j].min_release <= subs[j].release
                        /\ subs[j].release <= subs[j].max_release
                        /\ subs[j].release =
                             IF total < subs[j].min_release THEN subs[j].min_release
                             ELSE IF total > subs[j].max_release THEN subs[j].max_release
                             ELSE total
              /\ (\A j \in 1..Len(subs) : subs[j].min_release <= subs[j].max_release) =>
                   /\ \E j \in 1..Len(subs) : subs[j].min_release <= Last(self.release_vector)
                   /\ \E j \in 1..Len(subs) : Last(self.release_vector) <= subs[j].max_release

\* A step with a negative action, raised to the minimum release of 0 in both
\* sub-steps, so that the reservoir reports a release of 0.
C20_Witness ==
    /\ Stepped
    /\ cfg = 5
    /\ Len(log) >= 2
    /\ ret.actions[2] = <<-1>>
    /\ Len(log[2].subs) = 2
    /\ \A j \in 1..2 : log[2].subs[j].release = 0 /\ log[2].subs[j].min_release = 0
    /\ Last(water_systems[2].release_vector) = 0


\* C21: a reservoir step takes exactly ceil(T / d) sub-steps for timestep T
\* and sub-step size d; every sub-step is at most d long and only the last
\* may be shorter, their lengths sum to T, and on exit the reservoir's clock
\* is its value on entry plus T (the orchestrator's date after the step).
C21_SubStepsCoverTimestep ==
    Stepped =>
      \A k \in 1..Len(log) :
        LET i == log[k].node
            d == NodeCfg(i).integration_timestep_size
            T == Config.timestep_size
            subs == log[k].subs
        IN  NodeCfg(i).kind = "reservoir" =>
              /\ Len(subs) = (T + d - 1) \div d
              /\ \A j \in 1..Len(subs) :
                   /\ 0 < subs[j].seconds
                   /\ subs[j].seconds <= d
                   /\ j < Len(subs) => subs[j].seconds = d
              /\ SubSeconds(subs) = T
              /\ water_systems[i].current_date = current_date

\* A reservoir step of 7200 s with a sub-step size of 5400 s: two sub-steps,
\* the second cut to 1800 s.
C21_Witness ==
    /\ Stepped
    /\ cfg = 1
    /\ Len(log) >= 2
    /\ Len(log[2].subs) = 2
    /\ log[2].subs[1].seconds = 5400
    /\ log[2].subs[2].seconds = 1800
    /\ water_systems[2].current_date = current_date


\* C22: during the step at node timestep t a reservoir uses the evaporation
\* rate evap_rates[t mod 12]; each sub-step removes surface(storage at its
\* start) * rate / (100 * timestep seconds) * sub-step seconds from the
\* storage, and a surface of zero gives zero evaporation without a fault.
C22_EvaporationByMonth ==
    ret.op = "step" =>
      \A k \in 1..Len(log) :
        LET i == log[k].node
            c == NodeCfg(i)
            self == water_systems[i]
            t == self.timestep - 1
            subs == log[k].subs
        IN  c.kind = "reservoir" =>
              /\ \A j \in 1..Len(subs) :
                   /\ subs[j].surface =
                        Interp(subs[j].storage, c.storage_to_surface_rel[1],
                               c.storage_to_surface_rel[2])
                   /\ subs[j].evaporation * 100 * Config.timestep_size
                        = subs[j].surface * c.evap_rates[(t % 12) + 1] * subs[j].seconds
                   /\ subs[j].surface = 0 => subs[j].evaporation = 0
                   /\ (IF j < Len(subs) THEN subs[j + 1].storage ELSE self.stored_water)
                        = subs[j].storage
                          + get_inflow(self, t) * subs[j].seconds
                          - subs[j].evaporation
                          - subs[j].release * subs[j].seconds

\* The thirteenth step of a reservoir (t = 12): the table has come round to
\* its first entry, 100, so that each of the two half-hour sub-steps removes
\* 50 from a surface of 100; the step before removed 600 per sub-step.
C22_Witness ==
    /\ Stepped
    /\ cfg = LongRun
    /\ water_systems[2].timestep = 13
    /\ Len(log) = 2
    /\ \A j \in 1..2 : log[2].subs[j].surface = 100 /\ log[2].subs[j].evaporation = 50


\* C23: after a reservoir step with an action of more than one component,
\* if the components' sum is nonzero split_release holds one share per
\* component, share k = action[k] / sum (of the requested, not the clamped
\* release), the shares summing to 1; if the sum is zero split_release holds
\* no shares after the step.
C23_SplitShares ==
    Stepped =>
      \A k \in 1..Len(log) :
        LET i == log[k].node
            actions == ret.actions[i]
        IN  (NodeCfg(i).kind = "reservoir" /\ Len(actions) > 1) =>
              IF SumSeq(actions) # 0
              THEN /\ water_systems[i].split_release # NoSplit
                   /\ Len(water_systems[i].split_release) = Len(actions)
                   /\ \A n \in 1..Len(actions) :
                        water_systems[i].split_release[n] = <<actions[n], SumSeq(actions)>>
                   /\ SumSeq([n \in 1..Len(actions) |-> water_systems[i].split_release[n][1]])
                        = SumSeq(actions)
              ELSE water_systems[i].split_release = NoSplit

\* C24: reset returns a controlled facility's split_release to its initial
\* value, none, whatever the steps before it recorded.
C24_ResetClearsSplit ==
    ret.op = "reset" =>
      \A i \in NodeIds : IsControlled(i) => water_systems[i].split_release = NoSplit


\* C25: the production a power plant records in a step equals
\* min(max_capacity, turbine_flow * head * g * efficiency) * hours of the
\* timestep, where the turbine flow is the clamped inflow of that step and
\* head = max(0, level - head_start_level) for the level the reservoir had
\* recorded last when the plant was stepped (0 when it had recorded none);
\* hence 0 <= production <= max_capacity * hours.
C25_ProductionFormula ==
    [][\A p \in NodeIds :
        (/\ NodeCfg(p).kind = "power_plant"
         /\ ret'.op = "step"
         /\ Len(water_systems'[p].production_vector)
              = Len(water_systems[p].production_vector) + 1) =>
          LET c == NodeCfg(p)
              before == water_systems[p]
              after == water_systems'[p]
              levels == IF c.reservoir < p
                        THEN water_systems'[c.reservoir].level_vector
                        ELSE water_systems[c.reservoir].level_vector
              hours == Config.timestep_size \div SecondsPerHour
              inflow == after.all_inflow[before.timestep + 1]
              turbine_flow == IF inflow < c.min_turbine_flow THEN c.min_turbine_flow
                              ELSE IF inflow > c.max_turbine_flow THEN c.max_turbine_flow
                              ELSE inflow
              level == IF Len(levels) = 0 THEN 0 ELSE levels[Len(levels)]
              head == IF level > c.head_start_level
                      THEN level - c.head_start_level ELSE 0
              power == turbine_flow * head * G * c.efficiency
              production == after.production_vector[Len(after.production_vector)]
          IN  /\ production
                   = (IF power > c.max_capacity THEN c.max_capacity ELSE power) * hours
              /\ 0 <= production
              /\ production <= c.max_capacity * hours
      ]_vars

\* The run-of-river plant is stepped before its reservoir: no level on the
\* first step (production 0), then level 4 over a head start of 1 with the
\* turbine flow clamped to 3, which exceeds the rated capacity.
C25_Witness ==
    /\ cfg = 7
    /\ water_systems[2].production_vector = <<0, 50000000>>
    /\ water_systems[4].level_vector = <<4, 4>>

\* A production below the rated capacity: turbine flow 1 over a head of 3.
C25_WitnessUncapped ==
    /\ cfg = 7
    /\ water_systems[2].production_vector = <<0, 23535960>>


C27_OneProductionPerStep ==
    /\ [](\A p \in NodeIds :
            NodeCfg(p).kind = "power_plant" =>
              Len(water_systems[p].production_vector) = water_systems[p].timestep)
    /\ [][\A p \in NodeIds :
            (/\ NodeCfg(p).kind = "power_plant"
             /\ ret'.op = "step"
             /\ water_systems'[p].timestep # water_systems[p].timestep) =>
              LET before == water_systems[p].production_vector
                  after == water_systems'[p].production_vector
              IN  /\ water_systems'[p].timestep = water_systems[p].timestep + 1
                  /\ Len(after) = Len(before) + 1
                  /\ SubSeq(after, 1, Len(before)) = before
                  /\ ~ret'.fault =>
                       ret'.info[water_systems[p].name].monthly_production
                         = after[Len(after)]
         ]_vars

\* The second step of the run-of-river plant reports the production it has
\* just appended, not the first one.
C27_Witness ==
    /\ cfg = 7
    /\ ret.op = "step"
    /\ ~ret.fault
    /\ water_systems[2].timestep = 2
    /\ water_systems[2].production_vector = <<0, 50000000>>
    /\ ret.info["run_of_river"].monthly_production = 50000000

\* A reset after two steps has emptied the record.
C27_WitnessReset ==
    /\ cfg = 7
    /\ ret.op = "reset"
    /\ ret.after_steps = 2
    /\ water_systems[2].production_vector = <<>>
    /\ water_systems[2].timestep = 0


\* C28: when an orchestrator step stops because the node it was stepping
\* read an inflow slot nobody had written, that node's all_outflow and
\* timestep and, for a reservoir, its storage_vector, level_vector,
\* release_vector and stored_water are what they were before the step.
C28_FaultedStepKeepsHistories ==
    [][(ret'.op = "step" /\ ret'.fault) =>
         LET i == Len(log') + 1
             before == water_systems[i]
             after == water_systems'[i]
         IN  (/\ NodeCfg(i).kind \in {"reservoir", "power_plant", "irrigation"}
              /\ ~HasInflow(after, before.timestep)) =>
               /\ after.all_outflow = before.all_outflow
               /\ after.timestep = before.timestep
               /\ NodeCfg(i).kind = "reservoir" =>
                    /\ after.storage_vector = before.storage_vector
                    /\ after.level_vector = before.level_vector
                    /\ after.release_vector = before.release_vector
                    /\ after.stored_water = before.stored_water
      ]_vars

\* The reservoir listed before the edge that feeds it has faulted in its
\* first sub-step: its clock has moved, its histories have not.
C28_Witness ==
    /\ cfg = 6
    /\ ret.op = "step"
    /\ ret.fault
    /\ log = <<>>
    /\ water_systems[1].current_date = 1800
    /\ water_systems[1].all_inflow = <<>>
    /\ water_systems[1].storage_vector = <<500>>
    /\ water_systems[1].stored_water = 500

\* The irrigation district listed before the edge that feeds it has faulted.
C28_WitnessDistrict ==
    /\ cfg = 8
    /\ ret.op = "step"
    /\ ret.fault
    /\ log = <<>>
    /\ water_systems[1].all_inflow = <<>>
    /\ water_systems[1].all_outflow = <<>>
    /\ water_systems[1].timestep = 0


\* C29: for every step an irrigation district has taken with demand >= 0 and
\* inflow >= 0, where the demand of node timestep t is
\* all_demand[t mod len(all_demand)], the outflow on record is
\* inflow - min(demand, inflow), it lies within [0, inflow], and it is 0
\* exactly when inflow <= demand; the demand reported by the step just
\* returned is the one of that timestep.
C29_DistrictNeverOverConsumes ==
    \A i \in NodeIds :
      NodeCfg(i).kind = "irrigation" =>
        LET c == NodeCfg(i)
            self == water_systems[i]
            L == Len(c.all_demand)
        IN  /\ Len(self.all_outflow) = self.timestep
            /\ \A k \in 1..Len(self.all_outflow) :
                 LET demand == c.all_demand[((k - 1) % L) + 1]
                     inflow == self.all_inflow[k]
                     outflow == self.all_outflow[k]
                     consumption == IF demand <= inflow THEN demand ELSE inflow
                 IN  (demand >= 0 /\ inflow >= 0) =>
                       /\ inflow - outflow = consumption
                       /\ 0 <= outflow
                       /\ outflow <= inflow
                       /\ (outflow = 0) <=> (inflow <= demand)
            /\ (Stepped /\ self.name \in DOMAIN ret.info /\ self.timestep > 0) =>
                 ret.info[self.name].demand
                   = c.all_demand[((self.timestep - 1) % L) + 1]

\* The district with a schedule of two demands <<100, 80>> has taken three
\* steps: a shortfall (5 of 100), a surplus (93 of 80 leaves 13) and the
\* third step uses the first demand again.
C29_Witness ==
    /\ cfg = 3
    /\ Stepped
    /\ water_systems[4].timestep = 3
    /\ water_systems[4].all_inflow[1] = 5
    /\ water_systems[4].all_inflow[2] = 93
    /\ water_systems[4].all_outflow = <<0, 13, 0>>
    /\ ret.info["upper"].demand = 100

\* An inflow equal to the demand leaves nothing.
C29_WitnessEqual ==
    /\ cfg = 1
    /\ water_systems[6].all_inflow = <<2>>
    /\ water_systems[6].all_outflow = <<0>>

=============================================================================
